---------------------------- MODULE Spec2Model ----------------------------
(***************************************************************************)
(* Model of src/app.py, the Streamlit "Pet Health Helper" script.          *)
(*                                                                         *)
(* The script is executed top to bottom on every interaction.  The first   *)
(* execution resolves the API key (lines 13-20); every later execution is  *)
(* a rerun caused either by a widget edit (the button reads False) or by   *)
(* a click on "Analyze & Generate Guidance" (the button reads True and     *)
(* lines 245-259 run).  What a run displays replaces what the previous     *)
(* run displayed.                                                          *)
(*                                                                         *)
(* Text is a sequence of tokens.  A character typed by the user is a       *)
(* one-character string; a literal line of the prompt template is one      *)
(* token; "\n" is the line break.  strip() therefore works on text as      *)
(* Python's str.strip() works on characters.                               *)
(***************************************************************************)
EXTENDS Integers, Sequences, FiniteSets, TLC

VARIABLES
    phase,            \* "boot" before the first run, "halted" after st.stop() at line 18, "form" once the form is rendered
    secrets,          \* st.secrets["OPENAI_API_KEY"], None when the key is not in the store
    environ,          \* os.environ["OPENAI_API_KEY"], None when unset
    OPENAI_API_KEY,   \* line 15
    client,           \* line 20: whether OpenAI(api_key=...) has been constructed, and with which key
    widgets,          \* values held by the form widgets (lines 193-226)
    pet_profile,      \* lines 209-218, rebuilt by every run
    clicked,          \* the last run was started by the Analyze button
    stopped,          \* the last run ended in st.stop()
    errors,           \* st.error messages of the last run
    exception_shown,  \* st.exception(e) was called in the last run (line 259)
    uncaught,         \* exception that left the script in the last run
    b64_calls,        \* number of b64_data_url calls in the last run
    image_url,        \* line 249
    sent,             \* requests that reached client.responses.create in the last run
    shown             \* markdown blocks written by lines 255-256 in the last run

vars == << phase, secrets, environ, OPENAI_API_KEY, client, widgets, pet_profile,
           clicked, stopped, errors, exception_shown, uncaught, b64_calls,
           image_url, sent, shown >>

config == << secrets, environ >>
output == << clicked, stopped, errors, exception_shown, uncaught, b64_calls,
             image_url, sent, shown >>

--------------------------------------------------------------------------
(* Bounds of the model *)

\* longest text typed into the name widget
MaxNameLen == 1
\* longest text typed into the concerns widget
MaxConcernsLen == 2
\* image sides 1..SmallDim are sampled
SmallDim == 3
\* image sides within Near of the 1024 limit are sampled
Near == 2

--------------------------------------------------------------------------
(* Values *)

None == "None"
NoException == "NoException"

Max(a, b) == IF a >= b THEN a ELSE b
Abs(a) == IF a >= 0 THEN a ELSE 0 - a

\* characters the user types: a letter and a blank
Chars == {"a", " "}
Whitespace == {" ", "\n", "\t"}

Texts(maxLen) == UNION { [1..n -> Chars] : n \in 0..maxLen }
\* values of the (optional) one-line fields
FieldTexts == { <<>>, <<"b">> }

\* the secrets store has no key or an empty one; the environment has none or a key
KeyValues == {None, ""}
EnvValues == {None, "sk-test"}

SpeciesOptions == {"Dog", "Cat"}
SexOptions == {"Male", "Female", "Unknown"}

NoUpload == [kind |-> "none", w |-> 0, h |-> 0]
Garbage == [kind |-> "garbage", w |-> 0, h |-> 0]
Picture(w, h) == [kind |-> "image", w |-> w, h |-> h]
UploadChoices == {NoUpload, Garbage, Picture(4000, 3000)}

NoUrl == [none |-> TRUE, prefix |-> "", w |-> 0, h |-> 0, quality |-> 0]

\* Python truthiness of an optional string
Truthy(v) == v # None /\ v # ""

\* str.strip(), str.lstrip(), str.rstrip()
RECURSIVE lstrip(_)
lstrip(s) == IF s = <<>> THEN s
             ELSE IF Head(s) \in Whitespace THEN lstrip(Tail(s)) ELSE s

RECURSIVE rstrip(_)
rstrip(s) == IF s = <<>> THEN s
             ELSE IF s[Len(s)] \in Whitespace THEN rstrip(SubSeq(s, 1, Len(s) - 1)) ELSE s

strip(s) == rstrip(lstrip(s))


--------------------------------------------------------------------------
(* Startup, lines 13-20 *)

\* st.secrets.get("OPENAI_API_KEY", os.getenv("OPENAI_API_KEY")): the store's
\* value when the store has the key, the environment's otherwise
ResolveKey(sec, env) == IF sec # None THEN sec ELSE env

\* variant: the check of line 16 left out
KeyMissing_never(key) == FALSE

\* `not OPENAI_API_KEY`: None and the empty string are both falsy
KeyMissing(key) == ~Truthy(key)

NoClient == [built |-> FALSE, api_key |-> None]
OpenAI(key) == [built |-> TRUE, api_key |-> key]

--------------------------------------------------------------------------
(* Image normalizer, lines 25-42 *)

MAX_SIDE == 1024
JPEG_QUALITY == 80

max_size == << MAX_SIDE, MAX_SIDE >>

Floor(p, q) == p \div q
Ceil(p, q) == IF p % q = 0 THEN p \div q ELSE (p \div q) + 1

\* Pillow's round_aspect for the width: of floor and ceil of y*W/H, the one whose
\* ratio n/y is nearer to W/H (floor on a tie), and at least 1
round_aspect_x(W, H, y) ==
    LET f == Floor(y * W, H)
        c == Ceil(y * W, H)
        n == IF Abs(W * y - f * H) <= Abs(W * y - c * H) THEN f ELSE c
    IN  Max(n, 1)

\* how the floating-point comparison of round_aspect falls when the two candidate
\* ratios are equally far from W/H in exact arithmetic
Ties == {"floor", "ceil"}

\* Pillow's round_aspect for the height: of floor and ceil of x*H/W, the one whose
\* ratio x/n is nearer to W/H (0 when the floor is 0), and at least 1.  The ratios
\* x/n are rounded floats, so an exact tie falls either way.
round_aspect_y(W, H, x, tie) ==
    LET f == Floor(x * H, W)
        c == Ceil(x * H, W)
        df == Abs(W * f - x * H) * c
        dc == Abs(W * c - x * H) * f
        n == IF f = 0 THEN 0
             ELSE IF df < dc THEN f
             ELSE IF df > dc THEN c
             ELSE IF tie = "floor" THEN f ELSE c
    IN  Max(n, 1)

\* variant: image.resize(max_size) in place of image.thumbnail(max_size)
thumbnail_resize(size, box, tie) == box

\* image.thumbnail(max_size): the size is kept when the image fits the box, and
\* otherwise one side becomes the box's and the other follows the aspect ratio
thumbnail(size, box, tie) ==
    LET W == size[1]
        H == size[2]
        x == box[1]
        y == box[2]
    IN  IF x >= W /\ y >= H THEN size
        ELSE IF x * H >= y * W
             THEN << round_aspect_x(W, H, y), y >>
             ELSE << x, round_aspect_y(W, H, x, tie) >>

DataUrl(size) == [none |-> FALSE, prefix |-> "data:image/jpeg;base64,",
                  w |-> size[1], h |-> size[2], quality |-> JPEG_QUALITY]

\* variant: the uploaded bytes wrapped as they are, without decoding them
b64_data_url_lenient(uploaded_file, tie) ==
    [raised |-> FALSE,
     url |-> [none |-> FALSE, prefix |-> "data:image/jpeg;base64,",
              w |-> uploaded_file.w, h |-> uploaded_file.h, quality |-> 100]]

\* Image.open raises on bytes that are no image; otherwise the image is shrunk to
\* the box, converted to RGB, saved as JPEG at quality 80 and wrapped in a data URL
b64_data_url(uploaded_file, tie) ==
    IF uploaded_file.kind # "image"
    THEN [raised |-> TRUE, url |-> NoUrl]
    ELSE [raised |-> FALSE,
          url |-> DataUrl(thumbnail(<< uploaded_file.w, uploaded_file.h >>, max_size, tie))]


--------------------------------------------------------------------------
(* Pet profile, lines 209-218 *)

NotProvided == << "Not provided" >>

\* variant: a blank optional field replaced by a sentinel
PetProfile_defaulting(w) ==
    LET dflt(v) == IF strip(v) = <<>> THEN << "unspecified" >> ELSE v
    IN  [name |-> IF w.pet_name # <<>> THEN strip(w.pet_name) ELSE NotProvided,
         species |-> w.species,
         breed |-> dflt(w.breed),
         age |-> dflt(w.age),
         weight |-> dflt(w.weight),
         sex |-> w.sex,
         conditions |-> dflt(w.conditions),
         meds |-> dflt(w.meds)]

\* the name is stripped when the widget holds any text and is the sentinel when it
\* holds none; every other field is the widget's value
PetProfile(w) ==
    [name |-> IF w.pet_name # <<>> THEN strip(w.pet_name) ELSE NotProvided,
     species |-> w.species,
     breed |-> w.breed,
     age |-> w.age,
     weight |-> w.weight,
     sex |-> w.sex,
     conditions |-> w.conditions,
     meds |-> w.meds]

--------------------------------------------------------------------------
(* Prompt builder and triage call, lines 45-107 *)

MODEL == "gpt-4.1-mini"

NL == "\n"

SectionHeaders ==
    << "## Urgency Level",
       "## What this could be (possibilities to discuss with a vet)",
       "## Immediate safe steps",
       "## Do NOT do",
       "## Questions to answer (to improve accuracy)",
       "## What to tell the vet (copy/paste)",
       "## Emergency red flags" >>

\* lines 48-82 of the template, from the line break after the opening quotes
Instructions ==
    << NL,
       "You are a pet health triage assistant. You are NOT a veterinarian and you must not diagnose.", NL,
       NL,
       "Your job: help the user understand urgency, safe do/don't steps, and what to ask/tell a vet.", NL,
       NL,
       "Rules:", NL,
       "- Do NOT provide medication dosing.", NL,
       "- Do NOT claim certainty or a diagnosis.", NL,
       "- Provide an urgency level: HOME / VET SOON (24-48h) / URGENT (same day) / EMERGENCY (now).", NL,
       "- If any red flags are present, choose EMERGENCY and explain why.", NL,
       "- Be concise and actionable.", NL,
       NL,
       "Return your answer in Markdown with these exact sections:", NL,
       NL,
       SectionHeaders[1], NL,
       "(one of: HOME / VET SOON / URGENT / EMERGENCY)", NL,
       NL,
       SectionHeaders[2], NL,
       "(3-6 bullets; framed as possibilities, not diagnosis)", NL,
       NL,
       SectionHeaders[3], NL,
       "(5-8 bullets; safe, general care)", NL,
       NL,
       SectionHeaders[4], NL,
       "(5-8 bullets; common unsafe actions)", NL,
       NL,
       SectionHeaders[5], NL,
       "(5-10 bullets the owner can check quickly)", NL,
       NL,
       SectionHeaders[6], NL,
       "(brief summary: name, species, age, symptoms, timeline, appetite, water, vomiting/diarrhea, urination, energy, meds, toxins)", NL,
       NL,
       SectionHeaders[7], NL,
       "(list key red flags and say to seek emergency care if present)", NL,
       NL >>

\* variant: the "Current meds" line interpolating the conditions
prompt_text_meds_slip(profile, concerns_text) ==
    strip(Instructions
          \o << "Pet profile:", NL >>
          \o << "- Name: " >> \o profile.name \o << NL >>
          \o << "- Species: ", profile.species, NL >>
          \o << "- Breed: " >> \o profile.breed \o << NL >>
          \o << "- Age: " >> \o profile.age \o << NL >>
          \o << "- Weight: " >> \o profile.weight \o << NL >>
          \o << "- Sex: ", profile.sex, NL >>
          \o << "- Known conditions: " >> \o profile.conditions \o << NL >>
          \o << "- Current meds: " >> \o profile.conditions \o << NL >>
          \o << NL >>
          \o << "Owner concerns:", NL >>
          \o concerns_text \o << NL >>)

\* the f-string of lines 48-95: the template with the profile's fields and the
\* concerns interpolated, then .strip()
prompt_text(profile, concerns_text) ==
    strip(Instructions
          \o << "Pet profile:", NL >>
          \o << "- Name: " >> \o profile.name \o << NL >>
          \o << "- Species: ", profile.species, NL >>
          \o << "- Breed: " >> \o profile.breed \o << NL >>
          \o << "- Age: " >> \o profile.age \o << NL >>
          \o << "- Weight: " >> \o profile.weight \o << NL >>
          \o << "- Sex: ", profile.sex, NL >>
          \o << "- Known conditions: " >> \o profile.conditions \o << NL >>
          \o << "- Current meds: " >> \o profile.meds \o << NL >>
          \o << NL >>
          \o << "Owner concerns:", NL >>
          \o concerns_text \o << NL >>)

\* variant: the image part appended without the test of line 99
content_always_image(text, image_data_url) ==
    << [type |-> "input_text", text |-> text],
       [type |-> "input_image", image_url |-> image_data_url] >>

\* lines 97-100: the text part, then the image part when the URL is truthy
content(text, image_data_url) ==
    << [type |-> "input_text", text |-> text] >>
    \o (IF ~image_data_url.none /\ image_data_url.prefix # ""
        THEN << [type |-> "input_image", image_url |-> image_data_url] >>
        ELSE << >>)

Request(profile, concerns_text, image_data_url) ==
    [model |-> MODEL,
     input |-> << [role |-> "user",
                   content |-> content(prompt_text(profile, concerns_text), image_data_url)] >>]

ServiceOutcomes == {"ok", "error"}
ResponseText == << "markdown from the completion service" >>

\* variant: a failed call repeated once
run_triage_retry(profile, concerns_text, image_data_url, outcome) ==
    LET req == Request(profile, concerns_text, image_data_url)
    IN  [requests |-> IF outcome = "ok" THEN << req >> ELSE << req, req >>,
         raised |-> outcome # "ok",
         output_text |-> IF outcome = "ok" THEN ResponseText ELSE << >>]

\* one client.responses.create call; its failure propagates to the caller
run_triage(profile, concerns_text, image_data_url, outcome) ==
    [requests |-> << Request(profile, concerns_text, image_data_url) >>,
     raised |-> outcome # "ok",
     output_text |-> IF outcome = "ok" THEN ResponseText ELSE << >>]


--------------------------------------------------------------------------
(* The script's runs *)

DefaultWidgets ==
    [pet_name |-> << >>, species |-> "Dog", sex |-> "Male", breed |-> << >>,
     age |-> << >>, weight |-> << >>, conditions |-> << >>, meds |-> << >>,
     concerns |-> << >>, uploaded |-> NoUpload]

\* what each widget can hold
WidgetValues ==
    [pet_name |-> Texts(MaxNameLen), species |-> SpeciesOptions, sex |-> SexOptions,
     breed |-> FieldTexts, age |-> FieldTexts, weight |-> FieldTexts,
     conditions |-> FieldTexts, meds |-> FieldTexts,
     concerns |-> Texts(MaxConcernsLen), uploaded |-> UploadChoices]

\* pet_profile before line 209 has run
NoProfile ==
    [name |-> << >>, species |-> "", breed |-> << >>, age |-> << >>,
     weight |-> << >>, sex |-> "", conditions |-> << >>, meds |-> << >>]

MissingKeyMessage ==
    "Missing OPENAI_API_KEY. Add it to Streamlit Secrets (TOML) or to a local .env file."
BlankConcernsMessage == "Please describe symptoms first."
AnalysisFailedMessage ==
    "Something went wrong while analyzing. Try again or use a smaller image."

\* variant: `not concerns`, without strip()
ConcernsBlank_unstripped(concerns_text) == concerns_text = << >>

\* `not concerns.strip()`, line 245
ConcernsBlank(concerns_text) == strip(concerns_text) = << >>

\* lines 254-255
Heading(profile) ==
    LET title_name == IF profile.name # NotProvided THEN profile.name ELSE << "your pet" >>
    IN  << "## Results for " >> \o title_name

NoOutput ==
    /\ clicked' = FALSE
    /\ stopped' = FALSE
    /\ errors' = << >>
    /\ exception_shown' = FALSE
    /\ uncaught' = NoException
    /\ b64_calls' = 0
    /\ image_url' = NoUrl
    /\ sent' = << >>
    /\ shown' = << >>

Init ==
    /\ phase = "boot"
    /\ secrets \in KeyValues
    /\ environ \in EnvValues
    /\ OPENAI_API_KEY = None
    /\ client = NoClient
    /\ widgets = DefaultWidgets
    /\ pet_profile = NoProfile
    /\ clicked = FALSE
    /\ stopped = FALSE
    /\ errors = << >>
    /\ exception_shown = FALSE
    /\ uncaught = NoException
    /\ b64_calls = 0
    /\ image_url = NoUrl
    /\ sent = << >>
    /\ shown = << >>

\* The first run.  Lines 13-20 resolve the key; without one the run shows an error
\* and stops, with one it builds the client and goes on to render the form with
\* every widget at its default and the button unpressed.
Startup ==
    /\ phase = "boot"
    /\ LET key == ResolveKey(secrets, environ)
       IN  /\ OPENAI_API_KEY' = key
           /\ IF KeyMissing(key)
              THEN /\ phase' = "halted"
                   /\ errors' = << MissingKeyMessage >>
                   /\ stopped' = TRUE
                   /\ UNCHANGED << client, pet_profile >>
              ELSE /\ phase' = "form"
                   /\ client' = OpenAI(key)
                   /\ pet_profile' = PetProfile(widgets)
                   /\ errors' = << >>
                   /\ stopped' = FALSE
    /\ UNCHANGED << config, widgets, clicked, exception_shown, uncaught, b64_calls,
                    image_url, sent, shown >>

\* The user changes one widget.  The script reruns with the button unpressed: the
\* profile is rebuilt and nothing of lines 245-259 runs.
SetWidget ==
    /\ phase = "form"
    /\ \E field \in DOMAIN WidgetValues :
         \E value \in WidgetValues[field] :
            /\ value # widgets[field]
            /\ widgets' = [widgets EXCEPT ![field] = value]
    /\ pet_profile' = PetProfile(widgets')
    /\ NoOutput
    /\ UNCHANGED << phase, config, OPENAI_API_KEY, client >>

\* The user presses "Analyze & Generate Guidance": the script reruns with the
\* button pressed, lines 245-259.  outcome is what the completion service does
\* with a request, tie how Pillow's float comparison falls on an exact tie.
PressAnalyze ==
    /\ phase = "form"
    /\ \E outcome \in ServiceOutcomes, tie \in Ties :
         LET profile == PetProfile(widgets)
             img == IF widgets.uploaded.kind # "none"
                    THEN b64_data_url(widgets.uploaded, tie)
                    ELSE [raised |-> FALSE, url |-> NoUrl]
             triage == run_triage(profile, widgets.concerns, img.url, outcome)
         IN  /\ pet_profile' = profile
             /\ clicked' = TRUE
             /\ IF ConcernsBlank(widgets.concerns)
                THEN \* lines 245-247
                     /\ errors' = << BlankConcernsMessage >>
                     /\ stopped' = TRUE
                     /\ b64_calls' = 0
                     /\ image_url' = NoUrl
                     /\ uncaught' = NoException
                     /\ sent' = << >>
                     /\ exception_shown' = FALSE
                     /\ shown' = << >>
                ELSE /\ stopped' = FALSE
                     /\ b64_calls' = IF widgets.uploaded.kind # "none" THEN 1 ELSE 0
                     /\ image_url' = img.url
                     /\ IF img.raised
                        THEN \* line 249 is outside the try block
                             /\ uncaught' = "UnidentifiedImageError"
                             /\ errors' = << >>
                             /\ sent' = << >>
                             /\ exception_shown' = FALSE
                             /\ shown' = << >>
                        ELSE /\ uncaught' = NoException
                             /\ sent' = triage.requests
                             /\ IF triage.raised
                                THEN \* lines 257-259
                                     /\ errors' = << AnalysisFailedMessage >>
                                     /\ exception_shown' = TRUE
                                     /\ shown' = << >>
                                ELSE \* lines 254-256
                                     /\ errors' = << >>
                                     /\ exception_shown' = FALSE
                                     /\ shown' = << Heading(profile), triage.output_text >>
    /\ UNCHANGED << phase, config, OPENAI_API_KEY, client, widgets >>

Next == Startup \/ SetWidget \/ PressAnalyze

Spec == Init /\ [][Next]_vars

--------------------------------------------------------------------------
(* The image normalizer over many image sizes *)

DimSamples ==
    (1..SmallDim) \cup ((MAX_SIDE - Near)..(MAX_SIDE + Near))
    \cup {75, 768, 1536, 2048, 3000, 4000, 14080}

\* the form with a key configured, concerns typed and a decodable image uploaded
InitImage ==
    /\ phase = "form"
    /\ secrets = None
    /\ environ = "sk-test"
    /\ OPENAI_API_KEY = "sk-test"
    /\ client = OpenAI("sk-test")
    /\ \E w \in DimSamples, h \in DimSamples :
          widgets = [DefaultWidgets EXCEPT !.concerns = << "a" >>,
                                           !.uploaded = Picture(w, h)]
    /\ pet_profile = PetProfile(widgets)
    /\ clicked = FALSE
    /\ stopped = FALSE
    /\ errors = << >>
    /\ exception_shown = FALSE
    /\ uncaught = NoException
    /\ b64_calls = 0
    /\ image_url = NoUrl
    /\ sent = << >>
    /\ shown = << >>

NextImage == PressAnalyze

SpecImage == InitImage /\ [][NextImage]_vars


--------------------------------------------------------------------------
(* Properties *)

IsBlank(s) == \A i \in 1..Len(s) : s[i] \in Whitespace

\* t occurs in s as a contiguous run
Contains(s, t) ==
    \E i \in 0..(Len(s) - Len(t)) : SubSeq(s, i + 1, i + Len(t)) = t

Occurs(s, tok) == \E i \in 1..Len(s) : s[i] = tok
FirstIndex(s, tok) == CHOOSE i \in 1..Len(s) : s[i] = tok /\ \A j \in 1..(i - 1) : s[j] # tok

InOrder(s, toks) ==
    /\ \A k \in 1..Len(toks) : Occurs(s, toks[k])
    /\ \A k \in 1..(Len(toks) - 1) : FirstIndex(s, toks[k]) < FirstIndex(s, toks[k + 1])

Submitted == phase = "form" /\ clicked
NormalizationFails == widgets.uploaded.kind = "garbage"
CallIssued == sent # << >>
SentContent == sent[1].input[1].content
SentPrompt == SentContent[1].text

OptionalTextFields == {"breed", "age", "weight", "conditions", "meds"}

\* C1: a submission whose concerns text is empty or only whitespace shows the
\* validation error and stops; it normalizes no image and sends no request,
\* whatever the other widgets hold.
C1_BlankConcernsStops ==
    (Submitted /\ IsBlank(widgets.concerns)) =>
        /\ errors = << BlankConcernsMessage >>
        /\ stopped
        /\ b64_calls = 0
        /\ sent = << >>

C1_Witness ==
    /\ Submitted
    /\ widgets.concerns # << >>
    /\ IsBlank(widgets.concerns)
    /\ widgets.uploaded.kind = "image"
    /\ widgets.breed # << >>
    /\ stopped

\* C2: every failure raised during a submission, that of b64_data_url on
\* undecodable bytes included, is caught by the handler and turned into a
\* message; none leaves the handler as an uncaught exception.
C2_AllFailuresCaught ==
    Submitted =>
        /\ uncaught = NoException
        /\ (~IsBlank(widgets.concerns) /\ NormalizationFails) => errors # << >>

\* C3: with the key absent from the secrets store and from the environment the
\* run shows an error and halts; the client is never constructed, the form is
\* never rendered and no request is ever sent.
C3_MissingKeyHalts ==
    (secrets = None /\ environ = None) =>
        /\ ~client.built
        /\ phase # "form"
        /\ sent = << >>
        /\ phase = "halted" => (errors = << MissingKeyMessage >> /\ stopped)

C3_Witness ==
    /\ secrets = None
    /\ environ = None
    /\ phase = "halted"
    /\ OPENAI_API_KEY = None

\* C4: when an upload cannot be normalized, the submission sends no request to
\* the completion service.
C4_NoCallAfterFailedNormalization ==
    (Submitted /\ NormalizationFails) => sent = << >>

C4_Witness ==
    /\ Submitted
    /\ NormalizationFails
    /\ b64_calls = 1
    /\ uncaught # NoException

\* C5: a submission sends at most one request: exactly one when validation and
\* normalization succeed, and still only one when that request fails and the
\* error is shown.
C5_AtMostOneCall ==
    /\ Len(sent) <= 1
    /\ (Submitted /\ ~IsBlank(widgets.concerns) /\ ~NormalizationFails) => Len(sent) = 1
    /\ exception_shown => (Len(sent) = 1 /\ errors = << AnalysisFailedMessage >>)

C5_Witness ==
    /\ Submitted
    /\ exception_shown
    /\ Len(sent) = 1
    /\ widgets.uploaded.kind = "image"

\* C6: the request is a single "user" message whose content is the text part with
\* the rendered prompt, followed by exactly one image part when the submission
\* had an upload and by none when it had not.
C6_RequestShape ==
    CallIssued =>
        /\ Len(sent[1].input) = 1
        /\ sent[1].input[1].role = "user"
        /\ SentContent[1].type = "input_text"
        /\ SentPrompt = prompt_text(pet_profile, widgets.concerns)
        /\ IF widgets.uploaded.kind # "none"
           THEN /\ Len(SentContent) = 2
                /\ SentContent[2].type = "input_image"
                /\ SentContent[2].image_url = image_url
                /\ ~image_url.none
           ELSE Len(SentContent) = 1

C6_Witness ==
    /\ CallIssued
    /\ widgets.uploaded.kind = "image"
    /\ Len(SentContent) = 2

\* C7: the normalized image has both sides at most 1024 and neither side larger
\* than the input's; an input within 1024x1024 keeps its size, a larger one gets
\* its longer side at most 1024 and keeps its aspect ratio within rounding
\* (4000x3000 becomes 1024x768).
C7_ThumbnailBounds ==
    (Submitted /\ widgets.uploaded.kind = "image" /\ b64_calls = 1) =>
        LET W == widgets.uploaded.w
            H == widgets.uploaded.h
            w == image_url.w
            h == image_url.h
        IN  /\ w >= 1 /\ h >= 1
            /\ w <= MAX_SIDE /\ h <= MAX_SIDE
            /\ w <= W /\ h <= H
            /\ (W <= MAX_SIDE /\ H <= MAX_SIDE) => (w = W /\ h = H)
            /\ (W > MAX_SIDE \/ H > MAX_SIDE) =>
                   /\ Max(w, h) <= MAX_SIDE
                   /\ Abs(h * W - w * H) < Max(W, H)
            /\ (W = 4000 /\ H = 3000) => (w = 1024 /\ h = 768)

C7_Witness ==
    /\ Submitted
    /\ widgets.uploaded = Picture(4000, 3000)
    /\ b64_calls = 1
    /\ image_url.w = 1024
    /\ image_url.h = 768

\* C8 as stated: breed, age, weight, sex, conditions and meds each default to a
\* sentinel when left blank, so the profile never carries a blank value for them.
C8_OptionalFieldsNeverBlank ==
    phase = "form" =>
        /\ pet_profile.sex # ""
        /\ \A f \in OptionalTextFields : ~IsBlank(pet_profile[f])

\* C8 as amended: sex is always one of the select options; breed, age, weight,
\* conditions and meds are the profile's values exactly as typed, a blank one
\* included.
C8_OptionalFieldsPassedThrough ==
    phase = "form" =>
        /\ pet_profile.sex = widgets.sex
        /\ pet_profile.sex \in SexOptions
        /\ \A f \in OptionalTextFields : pet_profile[f] = widgets[f]

C8_Witness ==
    /\ CallIssued
    /\ pet_profile.breed = << >>
    /\ pet_profile.meds # << >>
    /\ Contains(SentPrompt, << "- Breed: ", NL >>)

PromptHasHeadersAndFields ==
    /\ InOrder(SentPrompt, SectionHeaders)
    /\ Contains(SentPrompt, << pet_profile.species >>)
    /\ Contains(SentPrompt, << pet_profile.sex >>)
    /\ \A f \in OptionalTextFields \cup {"name"} :
          ~IsBlank(pet_profile[f]) => Contains(SentPrompt, pet_profile[f])

\* C9 as stated: the rendered prompt has the seven section headers verbatim and
\* in order, the value of every non-blank profile field, and the concerns text
\* unchanged.
C9_PromptContainsConcernsVerbatim ==
    CallIssued =>
        /\ PromptHasHeadersAndFields
        /\ Contains(SentPrompt, widgets.concerns)

\* C9 as amended: the rendered prompt has the seven section headers verbatim and
\* in order, the value of every non-blank profile field, and the concerns text
\* without its trailing whitespace.
C9_PromptContainsConcernsRstripped ==
    CallIssued =>
        /\ PromptHasHeadersAndFields
        /\ Contains(SentPrompt, << "Owner concerns:", NL >> \o rstrip(widgets.concerns))

C9_Witness ==
    /\ CallIssued
    /\ widgets.concerns = << "a", " " >>
    /\ widgets.meds # << >>
    /\ widgets.conditions = << >>
    /\ SentPrompt[Len(SentPrompt)] = "a"

\* C10: a pet name that is empty or only whitespace gives the profile the name
\* "Not provided" and the heading "Results for your pet"; the profile's name is
\* always that sentinel or a non-empty text without leading or trailing
\* whitespace.
C10_BlankNameIsSentinel ==
    phase = "form" =>
        /\ IsBlank(widgets.pet_name) =>
              /\ pet_profile.name = NotProvided
              /\ shown # << >> => shown[1] = << "## Results for ", "your pet" >>
        /\ \/ pet_profile.name = NotProvided
           \/ /\ pet_profile.name # << >>
              /\ Head(pet_profile.name) \notin Whitespace
              /\ pet_profile.name[Len(pet_profile.name)] \notin Whitespace

==========================================================================
